---- MODULE Spec2Model ----
(***************************************************************************)
(* Robust-Audio-Link: BFSK sender (sender.c) and receiver (receiver.c).    *)
(*                                                                         *)
(* One behaviour is one run of the sender on a command line, followed by   *)
(* the capture of encoded_signal.wav (possibly delayed, truncated or with  *)
(* one frame bit corrupted) and one run of the receiver on that capture.   *)
(*                                                                         *)
(* Signal abstraction.  A sample is represented by the tone it carries:    *)
(* 0 (FREQ_0), 1 (FREQ_1), or none (a silent sample).  The sender writes    *)
(* spb samples of one tone per symbol, so its buffer is kept as the        *)
(* sequence of symbol tones, symbol j occupying sample indices             *)
(* (j-1)*spb .. j*spb-1.  The I/Q correlator of detect_bit_q is modelled   *)
(* by the energy it measures at each tone: the number of samples of the    *)
(* window that carry that tone.  Hann shaping, gain normalisation and the  *)
(* band-pass filter do not change which tone a sample carries and are not  *)
(* represented.                                                            *)
(***************************************************************************)
EXTENDS Integers, Sequences, FiniteSets, TLC

(***************************************************************************)
(* Bounds of the model                                                     *)
(***************************************************************************)
\* longest message given on the sender's command line
MaxLen == 2

\* bytes a message is made of ('A', 'h')
MsgBytes == {65, 104}

(***************************************************************************)
(* Program constants                                                       *)
(***************************************************************************)
SAMPLE_RATE == 44100
\* BIT_DURATION 0.015 s, in milliseconds
BIT_DURATION_MS == 15
\* PREAMBLE_SECONDS 1.5 s, in milliseconds
PREAMBLE_MS == 1500
REP == 3
SEARCH_SECONDS == 3
SEARCH_STEP_FRAC == 6
REFINE_STEPS == 24
LEN_MAX == 2000000
\* 0.93 of the early-termination test, in percent
EARLY_STOP_PCT == 93
MIN_SPB == 40
MIN_PRE_BITS == 32

\* "STEG"
MAGIC == <<83, 84, 69, 71>>

(***************************************************************************)
(* Integer helpers                                                         *)
(***************************************************************************)
\* lround(a / b) for a >= 0, b > 0: round half away from zero
lround(a, b) == (2 * a + b) \div (2 * b)

RECURSIVE Xor(_, _)
\* a ^ b on unsigned integers
Xor(a, b) ==
    IF a = 0 THEN b
    ELSE IF b = 0 THEN a
    ELSE ((a + b) % 2) + 2 * Xor(a \div 2, b \div 2)

\* (v >> s) & 0xFF
ByteAt(v, s) == (v \div (2 ^ s)) % 256

(***************************************************************************)
(* 32-bit unsigned values.  A uint32_t is kept as <<hi, lo>>, its two      *)
(* 16-bit halves, value hi * 65536 + lo.                                   *)
(***************************************************************************)
\* 0xEDB88320u
CRC_POLY == <<60856, 33568>>

\* 0xFFFFFFFFu
U32_MAX == <<65535, 65535>>

\* (uint32_t) v for 0 <= v < 2^31
U32(v) == <<v \div 65536, v % 65536>>

\* a ^ b
Xor32(a, b) == <<Xor(a[1], b[1]), Xor(a[2], b[2])>>

\* c >> 1
Shr1(c) == <<c[1] \div 2, (c[1] % 2) * 32768 + c[2] \div 2>>

\* c >> 8
Shr8(c) == <<c[1] \div 256, (c[1] % 256) * 256 + c[2] \div 256>>

\* the bytes (c>>24)&0xFF, (c>>16)&0xFF, (c>>8)&0xFF, c&0xFF
U32Bytes(c) == <<c[1] \div 256, c[1] % 256, c[2] \div 256, c[2] % 256>>

\* (b0<<24) | (b1<<16) | (b2<<8) | b3
U32FromBytes(b0, b1, b2, b3) == <<b0 * 256 + b1, b2 * 256 + b3>>

(***************************************************************************)
(* CRC-32 (the same code in sender.c and receiver.c)                       *)
(***************************************************************************)
RECURSIVE crc32_entry(_, _)
\* k rounds of c = (c & 1) ? (poly ^ (c >> 1)) : (c >> 1)
crc32_entry(c, k) ==
    IF k = 0 THEN c
    ELSE crc32_entry(IF c[2] % 2 = 1 THEN Xor32(CRC_POLY, Shr1(c)) ELSE Shr1(c), k - 1)

\* crc32_init
crc32_table == [i \in 0..255 |-> crc32_entry(U32(i), 8)]

RECURSIVE crc32_loop_short(_, _, _, _)
\* crc32_loop that stops one byte early
crc32_loop_short(data, i, n, c) ==
    IF i >= n THEN c
    ELSE LET c2 == Xor32(crc32_table[Xor(c[2] % 256, data[i])], Shr8(c))
         IN  IF c2[1] >= 0 THEN crc32_loop_short(data, i + 1, n, c2) ELSE c2

RECURSIVE crc32_loop(_, _, _, _)
\* for(i..n) c = crc32_table[(c ^ data[i]) & 0xFF] ^ (c >> 8)
crc32_loop(data, i, n, c) ==
    IF i > n THEN c
    ELSE LET c2 == Xor32(crc32_table[Xor(c[2] % 256, data[i])], Shr8(c))
         IN  \* c2[1] >= 0 always holds: the test has c2 evaluated before the next round
             IF c2[1] >= 0 THEN crc32_loop(data, i + 1, n, c2) ELSE c2

\* sender.c crc32_compute over the first n bytes of data
crc32_compute(data, n) == Xor32(crc32_loop(data, 1, n, U32_MAX), U32_MAX)

\* receiver.c crc32_compute over the first n bytes of data
rx_crc32_compute(data, n) == Xor32(crc32_loop(data, 1, n, U32_MAX), U32_MAX)

(***************************************************************************)
(* AES-256-CTR with the fixed key and IV                                   *)
(***************************************************************************)
\* first keystream block of AES-256-CTR under key[] and iv[]
KeyStream == <<93, 153, 129, 68, 233, 79, 20, 70, 91, 125, 57, 244, 60, 241, 138, 87>>

\* EVP_EncryptUpdate in CTR mode: cipher[i] = plain[i] ^ keystream[i]
encrypt_aes_ctr(plain) == [i \in 1..Len(plain) |-> Xor(plain[i], KeyStream[i])]

\* decrypt_aes_ctr with the keystream taken one byte ahead
decrypt_aes_ctr_ahead(cipher) == [i \in 1..Len(cipher) |-> Xor(cipher[i], KeyStream[i + 1])]

\* EVP_DecryptUpdate in CTR mode: plain[i] = cipher[i] ^ keystream[i]
decrypt_aes_ctr(cipher) == [i \in 1..Len(cipher) |-> Xor(cipher[i], KeyStream[i])]

(***************************************************************************)
(* Sender (sender.c main)                                                  *)
(***************************************************************************)
\* spb = lround(SAMPLE_RATE * BIT_DURATION)
spb == lround(SAMPLE_RATE * BIT_DURATION_MS, 1000)

\* pre_bits = lround(PREAMBLE_SECONDS / BIT_DURATION), at least 32
pre_bits ==
    LET p == lround(PREAMBLE_MS, BIT_DURATION_MS)
    IN  IF p < MIN_PRE_BITS THEN MIN_PRE_BITS ELSE p

\* BE32 with the bytes in the opposite order
LE32(v) == <<ByteAt(v, 0), ByteAt(v, 8), ByteAt(v, 16), ByteAt(v, 24)>>

\* (clen>>24)&0xFF, (clen>>16)&0xFF, (clen>>8)&0xFF, clen&0xFF
BE32(v) == <<ByteAt(v, 24), ByteAt(v, 16), ByteAt(v, 8), ByteAt(v, 0)>>

\* frame[0..frame_no_crc-1]: "STEG", LEN, ciphertext
frame_head(c) == MAGIC \o BE32(Len(c)) \o c

\* the frame built from ciphertext c
build_frame(c) ==
    LET h == frame_head(c)
    IN  h \o U32Bytes(crc32_compute(h, Len(h)))

\* tx_bits with the repetition left out
tx_bits_norep(frame_total) == pre_bits + frame_total * 8

\* tx_bits = pre_bits + data_bits * REP, data_bits = frame_total * 8
tx_bits(frame_total) == pre_bits + (frame_total * 8) * REP

\* total_samples = tx_bits * spb
total_samples_of(frame_total) == tx_bits(frame_total) * spb

\* frame_bit with the bits of a byte taken least significant first
frame_bit_lsb(f, i, bitpos) == (f[i + 1] \div (2 ^ (7 - bitpos))) % 2

\* (frame[i] >> bitpos) & 1
frame_bit(f, i, bitpos) == (f[i + 1] \div (2 ^ bitpos)) % 2

RECURSIVE SeqsUpTo(_)
SeqsUpTo(n) ==
    IF n = 0 THEN {<<>>}
    ELSE LET S == SeqsUpTo(n - 1)
         IN  S \cup {Append(s, b) : s \in {t \in S : Len(t) = n - 1}, b \in MsgBytes}

\* the messages argv[1] can be
Messages == SeqsUpTo(MaxLen)

\* the value of tried before the first candidate of the refinement
NoTrial == [delta |-> 0, idx |-> -1, p |-> 0, inv |-> 0, res |-> "none"]

VARIABLES
    pc,             \* position of the run
    argc, msg,      \* the sender's command line
    cipher, clen,   \* sender: ciphertext and its length
    frame,          \* sender: the frame
    total_samples,  \* sender: size of buf in samples
    use_cover,      \* sender: cover loaded and mixed in
    buf, si,        \* sender: symbol tones written so far, write index
    b, fi, bitpos, r, \* sender: loop counters (preamble bit; frame byte, bit, repetition)
    write_ok,       \* sender: sf_write_float wrote every sample
    s_exit, s_out,  \* sender: exit status (-1 while running), lines printed on stdout
    ch_k, ch_flip,  \* capture: silent samples prepended, frame bit corrupted (-1: none)
    ch_sym,         \* capture: the symbol tones that follow the silent samples
    n, fs,          \* capture: number of samples, sample rate
    off, best_off, best_inv, best_score, \* receiver: coarse search
    delta, inv_try, best_pos, best_inv2, \* receiver: refinement
    tried,          \* receiver: the last candidate of the refinement and what became of it
    pos, invert,    \* receiver: read cursor and polarity of the frame decode
    hdr, rx_clen, rx_frame, \* receiver: header bytes, LEN, header and ciphertext
    crc_stored, crc_calc,  \* receiver: decoded and computed CRC
    garbage,        \* receiver: some byte was decoded from samples outside x[0..n-1]
    rd_max,         \* receiver: largest sample index read so far, plus one
    passed,         \* receiver: the checks passed so far, in order
    r_exit, r_err, r_out \* receiver: exit status (-1 while running), diagnostic, plaintext printed

senderVars == <<argc, msg, cipher, clen, frame, total_samples, use_cover,
                buf, si, b, fi, bitpos, r, write_ok, s_exit, s_out>>

chanVars == <<ch_k, ch_flip, ch_sym, n, fs>>

coarseVars == <<off, best_off, best_inv, best_score>>

refineVars == <<delta, inv_try, tried, best_pos, best_inv2>>

frameVars == <<pos, invert, hdr, rx_clen, rx_frame, crc_stored, crc_calc, garbage>>

outVars == <<r_exit, r_err, r_out>>

recvVars == <<coarseVars, refineVars, frameVars, rd_max, passed, outVars>>

vars == <<pc, senderVars, chanVars, recvVars>>

Init ==
    /\ pc = "s_main"
    /\ argc \in 1..3
    /\ msg \in (IF argc < 2 THEN {<<>>} ELSE Messages)
    /\ cipher = <<>>
    /\ clen = 0
    /\ frame = <<>>
    /\ total_samples = 0
    /\ use_cover = FALSE
    /\ buf = <<>>
    /\ si = 0
    /\ b = 0
    /\ fi = 0
    /\ bitpos = 7
    /\ r = 0
    /\ write_ok = TRUE
    /\ s_exit = -1
    /\ s_out = <<>>
    /\ ch_k = 0
    /\ ch_flip = -1
    /\ ch_sym = <<>>
    /\ n = 0
    /\ fs = 0
    /\ off = 0
    /\ best_off = -1
    /\ best_inv = 0
    /\ best_score = -1
    /\ delta = 0
    /\ inv_try = 0
    /\ tried = NoTrial
    /\ best_pos = -1
    /\ best_inv2 = 0
    /\ pos = 0
    /\ invert = 0
    /\ hdr = <<>>
    /\ rx_clen = <<0, 0>>
    /\ rx_frame = <<>>
    /\ crc_stored = <<0, 0>>
    /\ crc_calc = <<0, 0>>
    /\ garbage = FALSE
    /\ rd_max = 0
    /\ passed = <<>>
    /\ r_exit = -1
    /\ r_err = ""
    /\ r_out = <<>>

\* return 1 from the sender's main
SenderFail ==
    /\ pc' = "s_exit"
    /\ s_exit' = 1

\* sender.c 137-157: usage check, malloc cipher, encrypt
SenderEncrypt ==
    /\ UNCHANGED <<chanVars, recvVars>>
    /\ pc = "s_main"
    /\ UNCHANGED <<argc, msg, frame, total_samples, use_cover, buf, si, b, fi,
                   bitpos, r, write_ok, s_out>>
    /\ IF argc < 2
       THEN SenderFail /\ UNCHANGED <<cipher, clen>>
       ELSE \E malloc_ok \in BOOLEAN, evp_ok \in BOOLEAN :
              IF ~malloc_ok
              THEN SenderFail /\ UNCHANGED <<cipher, clen>>
              ELSE IF ~evp_ok
              THEN SenderFail /\ UNCHANGED <<cipher, clen>>
              ELSE /\ cipher' = encrypt_aes_ctr(msg)
                   /\ clen' = Len(cipher')
                   /\ pc' = "s_frame"
                   /\ UNCHANGED s_exit

\* sender.c 159-190: build the frame, compute spb, pre_bits, total_samples
SenderFrame ==
    /\ UNCHANGED <<chanVars, recvVars>>
    /\ pc = "s_frame"
    /\ UNCHANGED <<argc, msg, cipher, clen, use_cover, buf, si, b, fi,
                   bitpos, r, write_ok, s_out>>
    /\ \E malloc_ok \in BOOLEAN :
         IF ~malloc_ok
         THEN SenderFail /\ UNCHANGED <<frame, total_samples>>
         ELSE /\ frame' = build_frame(cipher)
              /\ IF spb < MIN_SPB
                 THEN SenderFail /\ UNCHANGED total_samples
                 ELSE /\ total_samples' = total_samples_of(Len(frame'))
                      /\ pc' = "s_cover"
                      /\ UNCHANGED s_exit

\* sender.c 192-232: load the cover, open the output, malloc buf
SenderOpen ==
    /\ UNCHANGED <<chanVars, recvVars>>
    /\ pc = "s_cover"
    /\ UNCHANGED <<argc, msg, cipher, clen, frame, total_samples, buf, si, b, fi,
                   bitpos, r, write_ok, s_out>>
    /\ \E load_ok \in BOOLEAN, open_ok \in BOOLEAN, malloc_ok \in BOOLEAN :
         /\ use_cover' = (argc >= 3 /\ load_ok)
         /\ IF ~open_ok \/ ~malloc_ok
            THEN SenderFail
            ELSE pc' = "s_pre" /\ UNCHANGED s_exit

\* sender.c 237-256: one preamble symbol, spb samples of tone (b & 1)
SenderPreamble ==
    /\ UNCHANGED <<chanVars, recvVars>>
    /\ pc = "s_pre"
    /\ UNCHANGED <<argc, msg, cipher, clen, frame, total_samples, use_cover,
                   fi, bitpos, r, write_ok, s_exit, s_out>>
    /\ IF b < pre_bits
       THEN /\ buf' = Append(buf, b % 2)
            /\ si' = si + spb
            /\ b' = b + 1
            /\ pc' = pc
       ELSE /\ pc' = "s_data"
            /\ UNCHANGED <<buf, si, b>>

\* sender.c 259-282: one data symbol, spb samples of the tone of the frame bit
SenderData ==
    /\ UNCHANGED <<chanVars, recvVars>>
    /\ pc = "s_data"
    /\ UNCHANGED <<argc, msg, cipher, clen, frame, total_samples, use_cover,
                   b, write_ok, s_exit, s_out>>
    /\ IF fi < Len(frame)
       THEN /\ buf' = Append(buf, frame_bit(frame, fi, bitpos))
            /\ si' = si + spb
            /\ IF r + 1 < REP
               THEN r' = r + 1 /\ UNCHANGED <<bitpos, fi>>
               ELSE /\ r' = 0
                    /\ IF bitpos > 0
                       THEN bitpos' = bitpos - 1 /\ UNCHANGED fi
                       ELSE bitpos' = 7 /\ fi' = fi + 1
            /\ pc' = pc
       ELSE /\ pc' = "s_write"
            /\ UNCHANGED <<buf, si, fi, bitpos, r>>

\* sender.c 284-293: write the samples, print OK, return 0
SenderWrite ==
    /\ UNCHANGED <<chanVars, recvVars>>
    /\ pc = "s_write"
    /\ UNCHANGED <<argc, msg, cipher, clen, frame, total_samples, use_cover,
                   buf, si, b, fi, bitpos, r>>
    /\ write_ok' \in BOOLEAN
    /\ s_out' = <<"OK">>
    /\ s_exit' = 0
    /\ pc' = "s_exit"

(***************************************************************************)
(* The capture handed to the receiver                                      *)
(***************************************************************************)
\* silent samples prepended to the waveform
DelaySet == {0, 100, spb, 5 * spb, 14 * spb,
             SEARCH_SECONDS * SAMPLE_RATE - pre_bits * spb}

\* lengths a capture is cut to
CutSet == {pre_bits * spb, (pre_bits - 1 + 4 * 8 * REP) * spb,
           (pre_bits + 10 * 8 * REP) * spb}

\* a sample rate at which a symbol is shorter than 40 samples
LOW_RATE == 2000

\* the index, in buf, of the first of the REP symbols of frame bit q
BitSymbol(q) == pre_bits + q * REP + 1

\* the symbol tones of the waveform with every repetition of frame bit q inverted
FlipBit(syms, q) ==
    [j \in 1..Len(syms) |->
        IF q >= 0 /\ j >= BitSymbol(q) /\ j < BitSymbol(q) + REP
        THEN 1 - syms[j] ELSE syms[j]]

\* encoded_signal.wav was written in full and holds pure BFSK
FileWritten == pc = "s_exit" /\ s_exit = 0 /\ write_ok /\ ~use_cover

\* the waveform, after k silent samples
ChannelDelay ==
    /\ FileWritten
    /\ \E k \in DelaySet :
         /\ ch_k' = k
         /\ n' = k + si
    /\ ch_flip' = -1
    /\ ch_sym' = buf
    /\ fs' = SAMPLE_RATE
    /\ pc' = "r_main"
    /\ UNCHANGED <<senderVars, recvVars>>

\* the frame bits a capture can have inverted: the first and the last bit of the
\* magic, and every bit of LEN, of the ciphertext and of the CRC
FlipSet == {0, 31} \cup 32..(8 * Len(frame) - 1)

\* the waveform with one frame bit inverted
ChannelFlip ==
    /\ FileWritten
    /\ \E q \in FlipSet :
         /\ ch_flip' = q
         /\ ch_sym' = FlipBit(buf, q)
    /\ ch_k' = 0
    /\ n' = si
    /\ fs' = SAMPLE_RATE
    /\ pc' = "r_main"
    /\ UNCHANGED <<senderVars, recvVars>>

\* the first c samples of the waveform
ChannelCut ==
    /\ FileWritten
    /\ \E c \in CutSet :
         /\ c <= si
         /\ n' = c
    /\ ch_k' = 0
    /\ ch_flip' = -1
    /\ ch_sym' = buf
    /\ fs' = SAMPLE_RATE
    /\ pc' = "r_main"
    /\ UNCHANGED <<senderVars, recvVars>>

\* the waveform under a header that gives a low sample rate
ChannelRate ==
    /\ FileWritten
    /\ ch_k' = 0
    /\ ch_flip' = -1
    /\ ch_sym' = buf
    /\ n' = si
    /\ fs' = LOW_RATE
    /\ pc' = "r_main"
    /\ UNCHANGED <<senderVars, recvVars>>

(***************************************************************************)
(* Receiver: detection and decoding (receiver.c)                           *)
(***************************************************************************)
Min(a, c) == IF a < c THEN a ELSE c

Max(a, c) == IF a > c THEN a ELSE c

\* spb = lround(fs * BIT_DURATION)
rx_spb == lround(fs * BIT_DURATION_MS, 1000)

\* pre_bits = lround(PREAMBLE_SECONDS / BIT_DURATION), at least 32
rx_pre_bits ==
    LET p == lround(PREAMBLE_MS, BIT_DURATION_MS)
    IN  IF p < MIN_PRE_BITS THEN MIN_PRE_BITS ELSE p

\* search_max = lround(SEARCH_SECONDS * fs), at most n
search_max == Min(lround(SEARCH_SECONDS * fs, 1), n)

\* step = spb / SEARCH_STEP_FRAC, at least 1
step == Max(rx_spb \div SEARCH_STEP_FRAC, 1)

\* step2 = spb / REFINE_STEPS, at least 1
step2 == Max(rx_spb \div REFINE_STEPS, 1)

\* (int)(0.93 * pre_bits)
stop_score == (EARLY_STOP_PCT * rx_pre_bits) \div 100

\* samples one decode_byte advances the cursor by
byte_len == 8 * REP * rx_spb

RECURSIVE EnergySum(_, _, _, _, _)
\* samples of x[start..end-1] that lie in symbols j..j1 and carry tone t
EnergySum(j, j1, start, end, t) ==
    IF j > j1 THEN 0
    ELSE (IF ch_sym[j + 1] = t
          THEN Min(end, ch_k + (j + 1) * spb) - Max(start, ch_k + j * spb)
          ELSE 0)
         + EnergySum(j + 1, j1, start, end, t)

\* the energy of x[start..start+len-1] at tone t: its samples that carry t
Energy(start, len, t) ==
    LET end == start + len
        first == Max(start, ch_k)
    IN  IF end <= first THEN 0
        ELSE EnergySum((first - ch_k) \div spb, (end - 1 - ch_k) \div spb, start, end, t)

\* p1 > p0, inverted on request
detect_bit_q(start, len, inv) ==
    LET p0 == Energy(start, len, 0)
        p1 == Energy(start, len, 1)
        bit == IF p1 > p0 THEN 1 ELSE 0
    IN  IF inv = 1 THEN 1 - bit ELSE bit

RECURSIVE coded_ones(_, _, _)
\* ones over the repetitions rr..REP-1
coded_ones(p, inv, rr) ==
    IF rr >= REP THEN 0
    ELSE detect_bit_q(p + rr * rx_spb, rx_spb, inv) + coded_ones(p, inv, rr + 1)

\* majority of the REP symbols at p
decode_coded_bit(p, inv) == IF coded_ones(p, inv, 0) > REP \div 2 THEN 1 ELSE 0

RECURSIVE decode_byte_loop(_, _, _, _)
decode_byte_loop(p, inv, k, v) ==
    IF k >= 8 THEN v
    ELSE decode_byte_loop(p + REP * rx_spb, inv, k + 1,
                          (v * 2 + decode_coded_bit(p, inv)) % 256)

\* the byte at p, most significant bit first
decode_byte(p, inv) == decode_byte_loop(p, inv, 0, 0)

\* cnt bytes decoded from p on, the cursor advancing by byte_len after each
decode_bytes(p, cnt, inv) == [i \in 1..cnt |-> decode_byte(p + (i - 1) * byte_len, inv)]

\* the preamble bits b = 0, 1, .. scored at offset o: those before pre_bits
\* and before the first with pos + spb >= n
score_windows(o) == Min(rx_pre_bits, Max((n - o - 1) \div rx_spb, 0))

\* preamble bits matched at offset o: detected bit = expected bit (b & 1)
score_preamble(o, inv) ==
    Cardinality({bb \in 0..(score_windows(o) - 1) :
                    detect_bit_q(o + bb * rx_spb, rx_spb, inv) = bb % 2})

\* one past the last sample score_preamble(o, .) reads
score_end(o) == IF score_windows(o) = 0 THEN 0 ELSE o + score_windows(o) * rx_spb

\* base = best_off + pre_bits * spb
base == best_off + rx_pre_bits * rx_spb

\* refine_skip that lets a read ending at the last sample through
refine_skip_gt(p) == p < 0 \/ p + 4 * REP * rx_spb * 8 > n

\* if(p < 0) continue; if(p + 4*REP*spb*8 >= n) continue;
refine_skip(p) == p < 0 \/ p + 4 * REP * rx_spb * 8 >= n

\* m0=='S' && m1=='T' && m2=='E' && m3=='G'
magic_at(p, inv) == decode_bytes(p, 4, inv) = MAGIC

\* bad_len without the test for zero
bad_len_max_only(c) ==
    \/ c[1] > LEN_MAX \div 65536
    \/ (c[1] = LEN_MAX \div 65536 /\ c[2] > LEN_MAX % 65536)

\* clen == 0 || clen > 2000000u
bad_len(c) ==
    \/ c = <<0, 0>>
    \/ c[1] > LEN_MAX \div 65536
    \/ (c[1] = LEN_MAX \div 65536 /\ c[2] > LEN_MAX % 65536)

\* bytes that can be decoded from p on without reading past x[n-1]
bytes_in_range(p) == (n - p) \div byte_len

\* the value of a valid LEN
len_value(c) == c[1] * 65536 + c[2]

\* what stands for bytes decoded from memory outside the capture
GARBAGE == <<-1>>

\* exit status of a run ended by a memory fault (128 + SIGSEGV)
FAULT == 128 + 11

\* LEN values that stand for the outcomes of the LEN check on arbitrary bytes
oob_lens == {<<0, 0>>, <<0, 1>>, <<65535, 65535>>}

\* the characters printf("%s") prints: up to the first NUL
c_str(bytes) ==
    LET nul == {i \in 1..Len(bytes) : bytes[i] = 0}
    IN  IF nul = {} THEN bytes
        ELSE SubSeq(bytes, 1, (CHOOSE i \in nul : \A j \in nul : i <= j) - 1)

\* the cursor after cnt bytes from p; past the end of x it is kept as n + 1
advance(p, cnt) == IF bytes_in_range(p) >= cnt THEN p + cnt * byte_len ELSE n + 1

\* if(s > best_score){ best_score=s; best_off=off; best_inv=inv; }
better(s, o, inv, cur) == IF s > cur[1] THEN <<s, o, inv>> ELSE cur

\* early_stop that a score equal to the threshold satisfies
early_stop_ge(score) == score >= stop_score

\* if(best_score > (int)(0.93 * pre_bits)) break;
early_stop(score) == score > stop_score

\* try_polarity that starts with the polarity of the coarse search
try_polarity_best(i) == IF i = 0 THEN best_inv ELSE 1 - best_inv

\* the polarity the inv_try-th trial of a candidate decodes with
try_polarity(i) == i

(***************************************************************************)
(* Receiver (receiver.c main)                                              *)
(***************************************************************************)
\* return 1 from the receiver's main, after the diagnostic e
RecvFail(e) ==
    /\ pc' = "r_exit"
    /\ r_exit' = 1
    /\ r_err' = e
    /\ r_out' = r_out

\* the run goes on at position p
RecvGoto(p) ==
    /\ pc' = p
    /\ UNCHANGED outVars

\* the run ends in a memory fault
RecvFault ==
    /\ pc' = "r_exit"
    /\ r_exit' = FAULT
    /\ UNCHANGED <<r_err, r_out>>

\* receiver.c 254-289: load the capture, front end, spb, search set-up
RecvLoad ==
    /\ pc = "r_main"
    /\ UNCHANGED <<senderVars, chanVars, refineVars, frameVars, rd_max, passed>>
    /\ \E load_ok \in BOOLEAN :
         IF ~load_ok
         THEN RecvFail("Failed to load wav") /\ UNCHANGED coarseVars
         ELSE IF rx_spb < MIN_SPB
         THEN RecvFail("BIT_DURATION too small or fs weird") /\ UNCHANGED coarseVars
         ELSE /\ off' = 0
              /\ best_off' = -1
              /\ best_inv' = 0
              /\ best_score' = -1
              /\ RecvGoto("r_coarse")

\* receiver.c 291-299: one candidate offset of the coarse search
RecvCoarse ==
    /\ pc = "r_coarse"
    /\ UNCHANGED <<senderVars, chanVars, refineVars, frameVars, passed>>
    /\ IF off + rx_pre_bits * rx_spb < search_max
       THEN LET s0 == score_preamble(off, 0)
                b0 == better(s0, off, 0, <<best_score, best_off, best_inv>>)
                s1 == score_preamble(off, 1)
                b1 == better(s1, off, 1, b0)
            IN  /\ best_score' = b1[1]
                /\ best_off' = b1[2]
                /\ best_inv' = b1[3]
                /\ rd_max' = Max(rd_max, score_end(off))
                /\ IF early_stop(b1[1])
                   THEN off' = off /\ RecvGoto("r_sync")
                   ELSE off' = off + step /\ RecvGoto("r_coarse")
       ELSE /\ RecvGoto("r_sync")
            /\ UNCHANGED <<coarseVars, rd_max>>

\* receiver.c 301-314: sync check, refinement set-up
RecvSync ==
    /\ pc = "r_sync"
    /\ UNCHANGED <<senderVars, chanVars, coarseVars, frameVars, rd_max>>
    /\ IF best_off < 0
       THEN RecvFail("Sync not found") /\ UNCHANGED <<refineVars, passed>>
       ELSE /\ delta' = -rx_spb
            /\ inv_try' = 0
            /\ best_pos' = -1
            /\ best_inv2' = best_inv
            /\ tried' = NoTrial
            /\ passed' = Append(passed, "sync")
            /\ RecvGoto("r_refine")

\* the candidate (delta, inv_try) at position p, decoded with polarity inv or skipped
Trial(p, inv, res) == [delta |-> delta, idx |-> inv_try, p |-> p, inv |-> inv, res |-> res]

\* the loop counters after the candidate (delta, inv_try)
RefineNext ==
    IF inv_try + 1 <= 1
    THEN inv_try' = inv_try + 1 /\ delta' = delta
    ELSE inv_try' = 0 /\ delta' = delta + step2

\* receiver.c 316-334: one candidate (delta, inv_try) of the refinement
RecvRefine ==
    /\ pc = "r_refine"
    /\ UNCHANGED <<senderVars, chanVars, coarseVars, frameVars, passed>>
    /\ IF delta <= rx_spb
       THEN LET p == base + delta
                inv == try_polarity(inv_try)
            IN  IF refine_skip(p)
                THEN /\ tried' = Trial(p, inv, "skip")
                     /\ RefineNext
                     /\ RecvGoto("r_refine")
                     /\ UNCHANGED <<best_pos, best_inv2, rd_max>>
                ELSE /\ rd_max' = Max(rd_max, p + 4 * byte_len)
                     /\ IF magic_at(p, inv)
                        THEN /\ best_pos' = p
                             /\ best_inv2' = inv
                             /\ tried' = Trial(p, inv, "found")
                             /\ RecvGoto("r_found")
                             /\ UNCHANGED <<delta, inv_try>>
                        ELSE /\ tried' = Trial(p, inv, "miss")
                             /\ RefineNext
                             /\ RecvGoto("r_refine")
                             /\ UNCHANGED <<best_pos, best_inv2>>
       ELSE /\ RecvGoto("r_found")
            /\ UNCHANGED <<refineVars, rd_max>>

\* receiver.c 336-344: was the magic found; cursor and polarity of the decode
RecvFound ==
    /\ pc = "r_found"
    /\ UNCHANGED <<senderVars, chanVars, coarseVars, refineVars, rd_max,
                   hdr, rx_clen, rx_frame, crc_stored, crc_calc, garbage>>
    /\ IF best_pos < 0
       THEN RecvFail("MAGIC not found near sync") /\ UNCHANGED <<pos, invert, passed>>
       ELSE /\ pos' = best_pos
            /\ invert' = best_inv2
            /\ passed' = Append(passed, "refine")
            /\ RecvGoto("r_header")

\* receiver.c 346-355: decode the header, check its magic
RecvHeader ==
    /\ pc = "r_header"
    /\ UNCHANGED <<senderVars, chanVars, coarseVars, refineVars, invert,
                   rx_clen, rx_frame, crc_stored, crc_calc>>
    /\ rd_max' = Max(rd_max, advance(pos, 8))
    /\ pos' = advance(pos, 8)
    /\ IF bytes_in_range(pos) >= 8
       THEN /\ hdr' = decode_bytes(pos, 8, invert)
            /\ garbage' = garbage
            /\ IF SubSeq(hdr', 1, 4) /= MAGIC
               THEN RecvFail("MAGIC mismatch") /\ UNCHANGED passed
               ELSE passed' = Append(passed, "magic") /\ RecvGoto("r_len")
       ELSE \E fault \in BOOLEAN, c \in oob_lens :
              IF fault
              THEN RecvFault /\ UNCHANGED <<hdr, garbage, passed>>
              ELSE /\ hdr' = decode_bytes(pos, 4, invert) \o U32Bytes(c)
                   /\ garbage' = TRUE
                   /\ IF SubSeq(hdr', 1, 4) /= MAGIC
                      THEN RecvFail("MAGIC mismatch") /\ UNCHANGED passed
                      ELSE passed' = Append(passed, "magic") /\ RecvGoto("r_len")

\* receiver.c 357-367: LEN check, malloc frame, copy the header
RecvLen ==
    /\ pc = "r_len"
    /\ UNCHANGED <<senderVars, chanVars, coarseVars, refineVars, rd_max,
                   pos, invert, hdr, crc_stored, crc_calc, garbage>>
    /\ rx_clen' = U32FromBytes(hdr[5], hdr[6], hdr[7], hdr[8])
    /\ IF bad_len(rx_clen')
       THEN RecvFail("Invalid LEN") /\ UNCHANGED <<rx_frame, passed>>
       ELSE \E malloc_ok \in BOOLEAN :
              IF ~malloc_ok
              THEN RecvFail("") /\ UNCHANGED <<rx_frame, passed>>
              ELSE /\ rx_frame' = hdr
                   /\ passed' = Append(passed, "len")
                   /\ RecvGoto("r_body")

\* receiver.c 369-371: decode clen ciphertext bytes
RecvBody ==
    /\ pc = "r_body"
    /\ UNCHANGED <<senderVars, chanVars, coarseVars, refineVars,
                   invert, hdr, rx_clen, crc_stored, crc_calc, passed>>
    /\ LET cnt == len_value(rx_clen)
       IN  /\ rd_max' = Max(rd_max, advance(pos, cnt))
           /\ pos' = advance(pos, cnt)
           /\ IF ~garbage /\ bytes_in_range(pos) >= cnt
              THEN /\ rx_frame' = rx_frame \o decode_bytes(pos, cnt, invert)
                   /\ garbage' = garbage
                   /\ RecvGoto("r_crc")
              ELSE \E fault \in BOOLEAN :
                     IF fault
                     THEN RecvFault /\ UNCHANGED <<rx_frame, garbage>>
                     ELSE /\ rx_frame' = GARBAGE
                          /\ garbage' = TRUE
                          /\ RecvGoto("r_crc")

\* receiver.c 373-386: decode the CRC, compute the CRC, compare
RecvCrc ==
    /\ pc = "r_crc"
    /\ UNCHANGED <<senderVars, chanVars, coarseVars, refineVars,
                   invert, hdr, rx_clen, rx_frame>>
    /\ rd_max' = Max(rd_max, advance(pos, 4))
    /\ pos' = advance(pos, 4)
    /\ crc_calc' = IF rx_frame = GARBAGE THEN <<0, 0>>
                   ELSE rx_crc32_compute(rx_frame, Len(rx_frame))
    /\ IF ~garbage /\ bytes_in_range(pos) >= 4
       THEN /\ crc_stored' = LET c == decode_bytes(pos, 4, invert)
                             IN  U32FromBytes(c[1], c[2], c[3], c[4])
            /\ garbage' = garbage
            /\ IF crc_calc' /= crc_stored'
               THEN RecvFail("CRC mismatch") /\ UNCHANGED passed
               ELSE passed' = Append(passed, "crc") /\ RecvGoto("r_decrypt")
       ELSE \E fault \in BOOLEAN, eq \in BOOLEAN :
              IF fault
              THEN RecvFault /\ UNCHANGED <<crc_stored, garbage, passed>>
              ELSE /\ crc_stored' = IF eq THEN crc_calc' ELSE Xor32(crc_calc', <<0, 1>>)
                   /\ garbage' = TRUE
                   /\ IF crc_calc' /= crc_stored'
                      THEN RecvFail("CRC mismatch") /\ UNCHANGED passed
                      ELSE passed' = Append(passed, "crc") /\ RecvGoto("r_decrypt")

\* receiver.c 388-410: decrypt, print the plaintext, return 0
RecvDecrypt ==
    /\ pc = "r_decrypt"
    /\ UNCHANGED <<senderVars, chanVars, coarseVars, refineVars, frameVars, rd_max>>
    /\ \E malloc_ok \in BOOLEAN, evp_ok \in BOOLEAN :
         IF ~malloc_ok
         THEN RecvFail("") /\ UNCHANGED passed
         ELSE IF ~evp_ok
         THEN RecvFail("Decrypt failed") /\ UNCHANGED passed
         ELSE /\ passed' = Append(passed, "decrypt")
              /\ r_out' = IF rx_frame = GARBAGE THEN <<GARBAGE>>
                          ELSE <<c_str(decrypt_aes_ctr(SubSeq(rx_frame, 9, Len(rx_frame))))>>
              /\ r_exit' = 0
              /\ r_err' = r_err
              /\ pc' = "r_exit"

Next ==
    \/ SenderEncrypt
    \/ SenderFrame
    \/ SenderOpen
    \/ SenderPreamble
    \/ SenderData
    \/ SenderWrite
    \/ ChannelDelay
    \/ ChannelFlip
    \/ ChannelCut
    \/ ChannelRate
    \/ RecvLoad
    \/ RecvCoarse
    \/ RecvSync
    \/ RecvRefine
    \/ RecvFound
    \/ RecvHeader
    \/ RecvLen
    \/ RecvBody
    \/ RecvCrc
    \/ RecvDecrypt

Spec == Init /\ [][Next]_vars

(***************************************************************************)
(* Properties                                                              *)
(***************************************************************************)
\* the receiver ended on a failure of its environment: the capture could not
\* be loaded, an allocation failed, or the crypto library reported an error
EnvFailure == r_exit = 1 /\ r_err \in {"Failed to load wav", "", "Decrypt failed"}

\* the capture is the sender's waveform, unchanged
CleanCapture == ch_k = 0 /\ ch_flip = -1 /\ n = si /\ fs = SAMPLE_RATE

\* the receiver's run has ended
RecvEnded == pc = "r_exit"

\* C1: round trip. Whenever the receiver's run on the unchanged waveform of a
\* message of 1..MaxLen bytes has ended, other than on a failure of its
\* environment, it has ended with status 0, the plaintext printed is the
\* message, and the decoded LEN is the length of the message.
RoundTrip ==
    (RecvEnded /\ CleanCapture /\ Len(msg) >= 1 /\ ~EnvFailure)
        => /\ r_exit = 0
           /\ r_out = <<msg>>
           /\ rx_clen = <<0, Len(msg)>>

\* a message of the longest length has made the round trip
RoundTripWitness ==
    /\ RecvEnded /\ CleanCapture /\ Len(msg) = MaxLen
    /\ r_exit = 0 /\ r_out = <<msg>>

(***************************************************************************)
(* CRC-32 by its definition: the remainder of the message polynomial by    *)
(* the IEEE 802.3 generator, bit by bit, on a register of 32 bits (kept    *)
(* least significant first), reflected, initial value and final            *)
(* complement all ones.                                                    *)
(***************************************************************************)
\* the exponents of the generator x^32 + x^26 + ... + x + 1, below 32
RefPolyExp == {0, 1, 2, 4, 5, 7, 8, 10, 11, 12, 16, 22, 23, 26}

\* the register after the input bit inbit
RefShift(reg, inbit) ==
    LET fb == (reg[1] + inbit) % 2
    IN  [k \in 1..32 |->
            LET s == IF k < 32 THEN reg[k + 1] ELSE 0
            IN  IF fb = 1 /\ (32 - k) \in RefPolyExp THEN 1 - s ELSE s]

\* the register after the 8 bits of byte v, least significant first
RefByte(reg, v) ==
    LET r1 == RefShift(reg, v % 2)
        r2 == RefShift(r1, (v \div 2) % 2)
        r3 == RefShift(r2, (v \div 4) % 2)
        r4 == RefShift(r3, (v \div 8) % 2)
        r5 == RefShift(r4, (v \div 16) % 2)
        r6 == RefShift(r5, (v \div 32) % 2)
        r7 == RefShift(r6, (v \div 64) % 2)
    IN  RefShift(r7, (v \div 128) % 2)

RECURSIVE RefFold(_, _, _)
RefFold(data, i, reg) ==
    IF i > Len(data) THEN reg
    ELSE LET r2 == RefByte(reg, data[i])
         IN  IF r2[1] >= 0 THEN RefFold(data, i + 1, r2) ELSE r2

\* the 32 bits of the CRC-32 of data, least significant first
RefCrcBits(data) ==
    LET reg == RefFold(data, 1, [k \in 1..32 |-> 1])
    IN  [k \in 1..32 |-> 1 - reg[k]]

\* the byte made of bits[lo+1] .. bits[lo+8], least significant first
RefBitsByte(bits, lo) ==
    bits[lo + 1] + 2 * bits[lo + 2] + 4 * bits[lo + 3] + 8 * bits[lo + 4]
    + 16 * bits[lo + 5] + 32 * bits[lo + 6] + 64 * bits[lo + 7] + 128 * bits[lo + 8]

\* the CRC-32 of data as four bytes, most significant first
RefCrcBE(data) ==
    LET c == RefCrcBits(data)
    IN  <<RefBitsByte(c, 24), RefBitsByte(c, 16), RefBitsByte(c, 8), RefBitsByte(c, 0)>>

\* C3: the frame the sender builds from the ciphertext C of length clen is
\* 'S','T','E','G', then clen as 4 bytes big-endian, then C, then the CRC-32 of
\* those 8 + clen bytes as 4 bytes big-endian; it is clen + 12 bytes long.
FrameLayout ==
    pc = "s_cover"
        => /\ clen = Len(cipher)
           /\ Len(frame) = clen + 12
           /\ SubSeq(frame, 1, 4) = <<83, 84, 69, 71>>
           /\ frame[5] * 16777216 + frame[6] * 65536 + frame[7] * 256 + frame[8] = clen
           /\ \A i \in 5..8 : frame[i] \in 0..255
           /\ SubSeq(frame, 9, 8 + clen) = cipher
           /\ SubSeq(frame, 9 + clen, 12 + clen) = RefCrcBE(SubSeq(frame, 1, 8 + clen))

\* a frame has been built from a ciphertext of the longest length
FrameLayoutWitness ==
    /\ pc = "s_cover"
    /\ clen = MaxLen
    /\ Len(frame) = MaxLen + 12

AllChecks == <<"sync", "refine", "magic", "len", "crc", "decrypt">>

\* the first k checks
Checks(k) == SubSeq(AllChecks, 1, k)

\* the stages of the receiver, in the order of its code
StageRank(p) ==
    CASE p = "r_main" -> 0
      [] p = "r_coarse" -> 1
      [] p = "r_sync" -> 2
      [] p = "r_refine" -> 3
      [] p = "r_found" -> 4
      [] p = "r_header" -> 5
      [] p = "r_len" -> 6
      [] p = "r_body" -> 7
      [] p = "r_crc" -> 8
      [] p = "r_decrypt" -> 9
      [] p = "r_exit" -> 10
      [] OTHER -> -1

\* plaintext is printed only by a run that has passed every check, in order,
\* and whose decoded frame satisfies them; a failed run has printed nothing
PlaintextState ==
    /\ \E k \in 0..6 : passed = Checks(k)
    /\ r_out /= <<>>
          => /\ pc = "r_exit" /\ r_exit = 0
             /\ passed = AllChecks
             /\ best_off >= 0 /\ best_pos >= 0
             /\ SubSeq(hdr, 1, 4) = <<83, 84, 69, 71>>
             /\ hdr[5] = 0
             /\ hdr[6] * 65536 + hdr[7] * 256 + hdr[8] \in 1..2000000
             /\ crc_calc = crc_stored
    /\ r_exit = 0 => r_out /= <<>>
    /\ r_exit = 1 => (pc = "r_exit" /\ r_out = <<>>)
    /\ r_err = "Sync not found" => (r_exit = 1 /\ passed = Checks(0))
    /\ r_err = "MAGIC not found near sync" => (r_exit = 1 /\ passed = Checks(1))
    /\ r_err = "Invalid LEN" => (r_exit = 1 /\ passed = Checks(3))
    /\ r_err = "CRC mismatch" => (r_exit = 1 /\ passed = Checks(4))
    /\ r_err = "Decrypt failed" => (r_exit = 1 /\ passed = Checks(5))

\* a step of the receiver never goes back to an earlier stage, leaves the
\* set of passed checks as it is or adds one, and no step follows the exit
NoRetryStep ==
    /\ StageRank(pc') >= StageRank(pc)
    /\ pc /= "r_exit"
    /\ (passed' = passed \/ (Len(passed) < 6 /\ passed' = Checks(Len(passed) + 1)))

\* C2: the receiver prints plaintext only after coarse sync, refinement, the
\* header magic check, the LEN check, the CRC comparison and decryption have
\* passed, in that order; every failure ends the run with status 1, nothing
\* printed, and no earlier stage is entered again.
PlaintextOnlyOnSuccess == []PlaintextState /\ [][NoRetryStep]_vars

\* a run has ended on a CRC mismatch, after four checks, with nothing printed
PlaintextOnlyOnSuccessWitness ==
    /\ pc = "r_exit" /\ r_exit = 1
    /\ r_err = "CRC mismatch"
    /\ passed = Checks(4)
    /\ r_out = <<>>

RECURSIVE PopCount(_)
\* the one bits of v
PopCount(v) == IF v = 0 THEN 0 ELSE (v % 2) + PopCount(v \div 2)

RECURSIVE DiffFrom(_, _, _)
\* the bits in which a[i..] and c[i..] differ
DiffFrom(a, c, i) ==
    IF i > Len(a) THEN 0 ELSE PopCount(Xor(a[i], c[i])) + DiffFrom(a, c, i + 1)

\* the receiver has decoded the whole frame: header and CRC as sent, the
\* ciphertext with exactly one bit changed
OneCipherBitOff ==
    /\ pc \in {"r_decrypt", "r_exit"}
    /\ clen >= 1
    /\ Len(rx_frame) = 8 + clen
    /\ SubSeq(rx_frame, 1, 8) = SubSeq(frame, 1, 8)
    /\ DiffFrom(SubSeq(rx_frame, 9, 8 + clen), cipher, 1) = 1
    /\ U32Bytes(crc_stored) = SubSeq(frame, 9 + clen, 12 + clen)

\* C4: CRC rejection. When the ciphertext the receiver decodes differs from the
\* one sent in exactly one bit, header and CRC decoded unchanged, the computed
\* CRC differs from the decoded one and the run ends in the CRC mismatch with
\* status 1, without the decryption check passed or anything printed.
CrcRejection ==
    OneCipherBitOff
        => /\ crc_calc /= crc_stored
           /\ pc = "r_exit" /\ r_exit = 1
           /\ r_err = "CRC mismatch"
           /\ passed = Checks(4)
           /\ r_out = <<>>

\* the last bit of the ciphertext of a longest message was inverted, and rejected
CrcRejectionWitness ==
    /\ OneCipherBitOff
    /\ clen = MaxLen
    /\ ch_flip = 8 * (8 + clen) - 1
    /\ r_err = "CRC mismatch"

\* the capture is the waveform after ch_k silent samples, ch_k within the
\* tolerance round(SEARCH_SECONDS*fs) - pre_bits*spb
DelayedCapture ==
    /\ ch_flip = -1 /\ fs = SAMPLE_RATE /\ n = ch_k + si
    /\ ch_k >= 0
    /\ ch_k <= SEARCH_SECONDS * SAMPLE_RATE - pre_bits * spb

\* C5: timing tolerance. Whenever the receiver's run on the waveform of a
\* message of 1..MaxLen bytes, delayed by k silent samples with
\* 0 <= k <= round(SEARCH_SECONDS*fs) - pre_bits*spb, has ended other than on
\* a failure of its environment, it has printed the message, with status 0.
TimingTolerance ==
    (RecvEnded /\ DelayedCapture /\ Len(msg) >= 1 /\ ~EnvFailure)
        => (r_exit = 0 /\ r_out = <<msg>>)

\* the cover file given on the command line could not be loaded
CoverLoadFailed == argc >= 3 /\ ~use_cover /\ pc \notin {"s_main", "s_frame", "s_cover"}

\* writing the samples to encoded_signal.wav failed
WriteFailed == ~write_ok

\* C7: the encoder exits with status 0, and prints OK, only on success: a run
\* in which the cover could not be loaded, or the samples could not be
\* written, ends with status 1.
EncoderExitStatus ==
    /\ s_exit = 0 => (~CoverLoadFailed /\ ~WriteFailed)
    /\ s_out /= <<>> => (~CoverLoadFailed /\ ~WriteFailed)
    /\ s_exit \in {-1, 0, 1}

\* ceil(0.93 * pre_bits)
CeilStop == (93 * rx_pre_bits + 99) \div 100

\* C8 as stated: the scan goes on only while the best score is below
\* ceil(0.93*pre_bits); a best score equal to it stops the scan.
StopsAtThreshold == pc = "r_coarse" => best_score < CeilStop

\* C8, amended: the scan goes on while the best score is at most
\* (int)(0.93*pre_bits) (93 for pre_bits = 100), and stops after the first
\* candidate at which the best score exceeds it (94 or more); that candidate
\* is the best offset, and no later offset is evaluated. Without such a
\* candidate the scan ends when off + pre_bits*spb reaches search_max.
StopsAboveThreshold ==
    /\ pc = "r_coarse" => best_score * 100 <= 93 * rx_pre_bits
    /\ pc = "r_sync"
          => \/ (best_score * 100 > 93 * rx_pre_bits /\ off = best_off)
             \/ (best_score * 100 <= 93 * rx_pre_bits
                   /\ off + rx_pre_bits * rx_spb >= Min(SEARCH_SECONDS * fs, n))

\* the scan goes on after a candidate that brought the best score to 93 of 100
StopsAboveThresholdWitness ==
    /\ pc = "r_coarse"
    /\ off > 0
    /\ best_score = CeilStop
    /\ best_score * 100 = 93 * rx_pre_bits

\* C9 as stated: for each delta the polarity of the coarse search is tried
\* first and the other one second.
BestInvertFirst ==
    tried.res /= "none"
        => tried.inv = (IF tried.idx = 0 THEN best_inv ELSE 1 - best_inv)

\* the candidates (delta, trial) that come before candidate (d, i)
Earlier(d, i) ==
    {c \in {<<-rx_spb + m * Max(rx_spb \div 24, 1), j>> :
              m \in 0..(2 * rx_spb), j \in {0, 1}} :
        c[1] < d \/ (c[1] = d /\ c[2] < i)}

\* C9, amended: refinement visits the candidates in order of increasing delta
\* from -spb to +spb in steps of max(spb/24, 1), and for each delta tries
\* polarity 0 first and polarity 1 second, whatever polarity the coarse search
\* chose; the refined (position, invert) is the first candidate in that order
\* that is not skipped and whose four decoded bytes are 'S','T','E','G'.
RefineOrder ==
    /\ (pc = "r_refine" /\ tried.res = "none") => (delta = -rx_spb /\ inv_try = 0)
    /\ (pc = "r_refine" /\ tried.res /= "none")
          => <<delta, inv_try>> = (IF tried.idx = 0 THEN <<tried.delta, 1>>
                                   ELSE <<tried.delta + Max(rx_spb \div 24, 1), 0>>)
    /\ tried.res /= "none"
          => /\ tried.inv = tried.idx
             /\ tried.delta \in (-rx_spb)..rx_spb
             /\ tried.p = best_off + rx_pre_bits * rx_spb + tried.delta
    /\ (pc = "r_found" /\ best_pos < 0) => delta > rx_spb
    /\ (pc = "r_found" /\ best_pos >= 0)
          => /\ tried.res = "found"
             /\ best_pos = tried.p /\ best_inv2 = tried.inv
             /\ decode_bytes(best_pos, 4, best_inv2) = <<83, 84, 69, 71>>
             /\ \A c \in Earlier(tried.delta, tried.idx) :
                   LET p == best_off + rx_pre_bits * rx_spb + c[1]
                   IN  \/ p + 32 * REP * rx_spb >= n
                       \/ decode_bytes(p, 4, c[2]) /= <<83, 84, 69, 71>>

\* the coarse search chose polarity 1, and refinement accepted a candidate at
\* polarity 0, the first it tries
RefineOrderWitness ==
    /\ pc = "r_found"
    /\ best_pos >= 0
    /\ best_inv = 1
    /\ best_inv2 = 0
    /\ tried.idx = 0

\* C10 as stated: a candidate is skipped exactly when p + 32*REP*spb > N.
SkipPastEnd ==
    tried.res /= "none"
        => (tried.res = "skip" <=> tried.p + 32 * REP * rx_spb > n)

\* C10, amended: a candidate p = base + delta is skipped exactly when
\* p + 32*REP*spb >= N; a candidate whose four-byte read would end exactly at
\* the last sample is skipped too, and every other candidate is decoded.
SkipAtEnd ==
    tried.res /= "none"
        => /\ tried.res = "skip" <=> tried.p + 32 * REP * rx_spb >= n
           /\ tried.p >= 0

\* a candidate whose read would end exactly at the last sample was skipped
SkipAtEndWitness ==
    /\ tried.res = "skip"
    /\ tried.p + 32 * REP * rx_spb = n

\* the LEN field of the frame the sender has built
SentLen == frame[5] * 16777216 + frame[6] * 65536 + frame[7] * 256 + frame[8]

\* C11: every frame the sender builds and modulates is a valid frame: for
\* every message accepted on the command line, the empty one included, its
\* LEN field satisfies 0 < LEN <= LEN_MAX, and the receiver's LEN check does
\* not reject the frame when it decodes the sender's waveform unchanged.
SentFrameValid ==
    /\ frame /= <<>> => (0 < SentLen /\ SentLen <= LEN_MAX)
    /\ (RecvEnded /\ CleanCapture) => r_err /= "Invalid LEN"

\* C12: memory safety of the receiver. In every run, whatever the length n of
\* the capture and whatever LEN passed the LEN check, every sample read lies
\* in x[0..n-1]: the highest index read, and the cursor, stay within the
\* capture, and no run ends in a memory fault.
ReadsInRange ==
    /\ rd_max <= n
    /\ pos <= n
    /\ r_exit /= FAULT

====
